---- MODULE Spec2Model ----
(***************************************************************************)
(* ConfigEditor (src/components/ConfigEditor/index.tsx): the text buffer   *)
(* of a configuration document, the syntax tree re-derived from it on      *)
(* every change, the published component list and markers, and the        *)
(* structured edits that patch the buffer.                                 *)
(*                                                                         *)
(* A text is a sequence of one-character strings.  A reference that may be *)
(* null is a sequence of length 0 (null) or 1 (the value).                 *)
(***************************************************************************)
EXTENDS Integers, Sequences, FiniteSets, TLC

NULL == <<>>
Some(v) == <<v>>

\* The value null in a block's label, where a template literal tells it
\* from undefined (NULL): a label that holds no string holds one or the other.
JSNull == <<<<>>, <<>>>>
Absent(opt) == opt = NULL \/ opt = JSNull

NL == "\n"
QUOTE == "\""

Max(S) == CHOOSE m \in S : \A o \in S : o <= m
Min(S) == CHOOSE m \in S : \A o \in S : m <= o

(***************************************************************************)
(* The text buffer (monaco ITextModel): lines are 1-indexed, columns are   *)
(* 1-indexed, a range ends before its end column.  Offsets count the       *)
(* characters before a position.                                           *)
(***************************************************************************)
NewlinesBefore(text, off) == Cardinality({i \in 1..off : text[i] = NL})

LastNewlineBefore(text, off) == Max({0} \cup {i \in 1..off : text[i] = NL})

getLineCount(text) == NewlinesBefore(text, Len(text)) + 1

\* Offset of the first character of line ln (1 <= ln <= getLineCount).
LineStart(text, ln) ==
  IF ln = 1 THEN 0
  ELSE CHOOSE i \in 1..Len(text) :
         text[i] = NL /\ NewlinesBefore(text, i) = ln - 1

LineLength(text, ln) ==
  LET s == LineStart(text, ln)
      ends == {i \in (s + 1)..Len(text) : text[i] = NL}
  IN  IF ends = {} THEN Len(text) - s ELSE Min(ends) - 1 - s

getLineMaxColumn(text, ln) == LineLength(text, ln) + 1

\* ITextModel.validatePosition: a position outside the text is clamped.
validatePosition(text, ln, col) ==
  IF ln < 1 THEN [lineNumber |-> 1, column |-> 1]
  ELSE IF ln > getLineCount(text)
    THEN [lineNumber |-> getLineCount(text),
          column |-> getLineMaxColumn(text, getLineCount(text))]
  ELSE IF col <= 1 THEN [lineNumber |-> ln, column |-> 1]
  ELSE IF col >= getLineMaxColumn(text, ln)
    THEN [lineNumber |-> ln, column |-> getLineMaxColumn(text, ln)]
  ELSE [lineNumber |-> ln, column |-> col]

getOffsetAt(text, ln, col) ==
  LET p == validatePosition(text, ln, col)
  IN  LineStart(text, p.lineNumber) + p.column - 1

getPositionAt(text, off) ==
  [lineNumber |-> NewlinesBefore(text, off) + 1,
   column |-> off - LastNewlineBefore(text, off) + 1]

\* The offsets [s, e) a range covers once validated (ITextModel.validateRange).
RangeOffsets(text, range) ==
  LET a == getOffsetAt(text, range.startLineNumber, range.startColumn)
      b == getOffsetAt(text, range.endLineNumber, range.endColumn)
  IN  [s |-> Min({a, b}), e |-> Max({a, b})]

OffsetsRange(text, s, e) ==
  [startLineNumber |-> getPositionAt(text, s).lineNumber,
   startColumn |-> getPositionAt(text, s).column,
   endLineNumber |-> getPositionAt(text, e).lineNumber,
   endColumn |-> getPositionAt(text, e).column]

\* ITextModel.findMatches(searchString, true, false, true, null, false): the
\* literal, case-sensitive occurrences, leftmost first, none overlapping an
\* earlier one; an empty search string matches nothing.
RECURSIVE MatchesFrom(_, _, _)
MatchesFrom(text, s, i) ==
  IF Len(s) = 0 \/ i + Len(s) - 1 > Len(text) THEN <<>>
  ELSE IF SubSeq(text, i, i + Len(s) - 1) = s
    THEN <<OffsetsRange(text, i - 1, i - 1 + Len(s))>>
           \o MatchesFrom(text, s, i + Len(s))
  ELSE MatchesFrom(text, s, i + 1)

findMatches(text, searchString) == MatchesFrom(text, searchString, 1)

\* Edit operations as offsets, in the order pieceTreeTextBuffer.applyEdits
\* sorts them: by range end, then range start, then position in the list.
EditBefore(a, b) ==
  \/ a.e < b.e
  \/ a.e = b.e /\ a.s < b.s
  \/ a.e = b.e /\ a.s = b.s /\ a.sortIndex < b.sortIndex

RECURSIVE SortOps(_)
SortOps(ops) ==
  IF ops = {} THEN <<>>
  ELSE LET first == CHOOSE a \in ops : \A b \in ops \ {a} : EditBefore(a, b)
       IN  <<first>> \o SortOps(ops \ {first})

EditOps(text, edits) ==
  {[s |-> RangeOffsets(text, edits[i].range).s,
    e |-> RangeOffsets(text, edits[i].range).e,
    text |-> edits[i].text,
    sortIndex |-> i] : i \in 1..Len(edits)}

\* applyEdits throws "Overlapping ranges are not allowed!" when an operation
\* starts before the end of the operation sorted before it.
EditsOverlap(text, edits) ==
  LET ops == SortOps(EditOps(text, edits))
  IN  \E i \in 1..(Len(ops) - 1) : ops[i + 1].s < ops[i].e

RECURSIVE ApplyOps(_, _, _)
ApplyOps(text, ops, from) ==
  IF ops = <<>> THEN SubSeq(text, from + 1, Len(text))
  ELSE SubSeq(text, from + 1, Head(ops).s) \o Head(ops).text
         \o ApplyOps(text, Tail(ops), Head(ops).e)

\* editor.executeEdits(source, edits): every edit applied in one transaction,
\* or none when the edits overlap (the call throws).
executeEdits(text, edits) ==
  IF EditsOverlap(text, edits)
    THEN [threw |-> TRUE, text |-> text]
    ELSE [threw |-> FALSE,
          text |-> ApplyOps(text, SortOps(EditOps(text, edits)), 0)]

(***************************************************************************)
(* Syntax trees (web-tree-sitter).  Rows and columns of a node are         *)
(* 0-indexed; a node ends before its end position.                         *)
(***************************************************************************)
Point(text, off) ==
  [row |-> NewlinesBefore(text, off),
   column |-> off - LastNewlineBefore(text, off)]

\* A SyntaxNode.  hasError: the node is an ERROR node, is missing, or holds
\* such a node.
SyntaxNode(type, missing, startPosition, endPosition, text, children) ==
  [type |-> type,
   isMissing |-> missing,
   hasError |-> \/ type = "ERROR"
                \/ missing
                \/ \E i \in 1..Len(children) : children[i].hasError,
   startPosition |-> startPosition,
   endPosition |-> endPosition,
   text |-> text,
   children |-> children]

\* The node over the offsets [s, e) of text.
Node(type, text, s, e, missing, children) ==
  SyntaxNode(type, missing, Point(text, s), Point(text, e),
             SubSeq(text, s + 1, e), children)

Letters == {"a", "b", "r", "z", "u", "n", "d", "e", "f", "i", "l"}
IdentChars == Letters \cup {"."}
Blank == {" ", NL}

\* The first offset at or after i whose character is not in S (Len(text) when
\* there is none).
SkipWhile(text, i, S) ==
  Min({j \in i..Len(text) : j = Len(text) \/ text[j + 1] \notin S})

\* The offset of the end of the line that holds offset i.
LineEnd(text, i) ==
  Min({j \in i..Len(text) : j = Len(text) \/ text[j + 1] = NL})

\* The offset of the first occurrence of c at or after offset i, or -1.
Find(text, i, c) ==
  LET at == {j \in i..(Len(text) - 1) : text[j + 1] = c}
  IN  IF at = {} THEN -1 ELSE Min(at)

CharAt(text, i) == IF i < Len(text) THEN text[i + 1] ELSE "EOF"

\* One top-level item starting at offset i (a non-blank character): a block
\*   name ["label"] { body }
\* or an ERROR node up to the end of the line.  A block whose closing brace is
\* absent runs to the end of the text and holds a missing "}" node.
ParseItem(text, i) ==
  LET nameEnd == SkipWhile(text, i, IdentChars)
      afterName == SkipWhile(text, nameEnd, {" "})
      hasLabel == CharAt(text, afterName) = QUOTE
      labelClose == Find(text, afterName + 1, QUOTE)
      labelOk == hasLabel /\ labelClose >= 0 /\ labelClose <= LineEnd(text, i)
      open == IF labelOk THEN SkipWhile(text, labelClose + 1, {" "})
              ELSE afterName
      close == Find(text, open + 1, "}")
      stop == IF close >= 0 THEN close + 1 ELSE Len(text)
      bodyEnd == IF close >= 0 THEN close ELSE Len(text)
      content == IF labelClose > afterName + 1
                 THEN <<Node("string_content", text, afterName + 1,
                             labelClose, FALSE, <<>>)>>
                 ELSE <<>>
      kids ==
        <<Node("identifier", text, i, nameEnd, FALSE, <<>>)>>
        \o (IF labelOk
            THEN <<Node("label", text, afterName, labelClose + 1, FALSE,
                        content)>>
            ELSE <<>>)
        \o <<Node("{", text, open, open + 1, FALSE, <<>>)>>
        \o (IF bodyEnd > open + 1
            THEN <<Node("body", text, open + 1, bodyEnd, FALSE, <<>>)>>
            ELSE <<>>)
        \o <<Node("}", text, bodyEnd, stop, close < 0, <<>>)>>
  IN  IF /\ nameEnd > i
         /\ (hasLabel => labelOk)
         /\ CharAt(text, open) = "{"
      THEN [node |-> Node("block", text, i, stop, FALSE, kids), next |-> stop]
      ELSE [node |-> Node("ERROR", text, i, LineEnd(text, i), FALSE, <<>>),
            next |-> LineEnd(text, i)]

\* The top-level items from offset i on, blanks between them skipped.
RECURSIVE ParseItems(_, _)
ParseItems(text, i) ==
  LET j == SkipWhile(text, i, Blank)
  IN  IF j >= Len(text) THEN <<>>
      ELSE <<ParseItem(text, j).node>>
             \o ParseItems(text, ParseItem(text, j).next)

\* parser.parse(model).rootNode
parse(text) ==
  Node("config_file", text, 0, Len(text), FALSE, ParseItems(text, 0))

(***************************************************************************)
(* Block codec (lib/river): a Block is a name, an optional label and the   *)
(* attribute text of its body.                                             *)
(***************************************************************************)
ChildrenOfType(node, type) ==
  SelectSeq(node.children, LAMBDA c : c.type = type)

Strip(text) == SelectSeq(text, LAMBDA c : c \notin Blank)

\* node.childForFieldName("label")?.namedChild(0)?.text, null when absent.
LabelText(node) ==
  LET labels == ChildrenOfType(node, "label")
  IN  IF labels = <<>> \/ Head(labels).children = <<>> THEN NULL
      ELSE Some(Head(Head(labels).children).text)

UnmarshalBlock(node) ==
  LET names == ChildrenOfType(node, "identifier")
      labels == ChildrenOfType(node, "label")
      bodies == ChildrenOfType(node, "body")
  IN  [name |-> IF names = <<>> THEN <<>> ELSE Head(names).text,
       label |-> IF labels = <<>> THEN NULL
                 ELSE IF Head(labels).children = <<>> THEN Some(<<>>)
                 ELSE Some(Head(Head(labels).children).text),
       body |-> IF bodies = <<>> THEN <<>> ELSE Strip(Head(bodies).text)]

marshal(block) ==
  block.name
    \o (IF Absent(block.label) THEN <<>>
        ELSE <<" ", QUOTE>> \o block.label[1] \o <<QUOTE>>)
    \o <<" ", "{">> \o block.body \o <<"}">>

\* What a template literal renders for an optional string: "undefined" for
\* undefined, "null" for null, the string otherwise.
Undefined == <<"u", "n", "d", "e", "f", "i", "n", "e", "d">>
Interpolate(opt) ==
  IF opt = NULL THEN Undefined
  ELSE IF opt = JSNull THEN <<"n", "u", "l", "l">>
  ELSE opt[1]

(***************************************************************************)
(* Diagnostics                                                             *)
(***************************************************************************)
RECURSIVE NodeAt(_, _)
NodeAt(node, path) ==
  IF path = <<>> THEN node ELSE NodeAt(node.children[Head(path)], Tail(path))

\* ErrorMarker with the end column one further to the right.
ErrorMarkerPastEnd(message, n) ==
  [message |-> message,
   severity |-> "Error",
   startLineNumber |-> n.startPosition.row + 1,
   startColumn |-> n.startPosition.column,
   endLineNumber |-> n.endPosition.row + 1,
   endColumn |-> n.endPosition.column + 2]

ErrorMarker(message, n) ==
  [message |-> message,
   severity |-> "Error",
   startLineNumber |-> n.startPosition.row + 1,
   startColumn |-> n.startPosition.column,
   endLineNumber |-> n.endPosition.row + 1,
   endColumn |-> n.endPosition.column + 1]

\* The cursor is the path of child indices from the root to its current node.
\* findErrors(cursor): nothing when the current node has no error; otherwise,
\* for the current node and each of its later siblings in turn: its own
\* markers, then findErrors on its first child.
RECURSIVE findErrors(_, _), findErrorsLoop(_, _)
findErrors(root, cursor) ==
  IF ~NodeAt(root, cursor).hasError THEN <<>>
  ELSE findErrorsLoop(root, cursor)

findErrorsLoop(root, cursor) ==
  LET n == NodeAt(root, cursor)
      level == Len(cursor)
      siblings == IF level = 0 THEN 1
                  ELSE Len(NodeAt(root, SubSeq(cursor, 1, level - 1)).children)
  IN  (IF n.type = "ERROR"
       THEN <<ErrorMarker(<<"unable to parse">>, n)>> ELSE <<>>)
      \o (IF n.isMissing
          THEN <<ErrorMarker(<<"Missing ", n.type>>, n)>> ELSE <<>>)
      \o (IF n.children # <<>>
          THEN findErrors(root, cursor \o <<1>>) ELSE <<>>)
      \o (IF level > 0 /\ cursor[level] < siblings
          THEN findErrorsLoop(root, [cursor EXCEPT ![level] = @ + 1])
          ELSE <<>>)

\* The positions findErrors puts the cursor on, one per successful
\* gotoFirstChild, gotoParent and gotoNextSibling, in the order of the calls.
RECURSIVE findErrorsMoves(_, _), findErrorsLoopMoves(_, _)
findErrorsMoves(root, cursor) ==
  IF ~NodeAt(root, cursor).hasError THEN <<>>
  ELSE findErrorsLoopMoves(root, cursor)

findErrorsLoopMoves(root, cursor) ==
  LET n == NodeAt(root, cursor)
      level == Len(cursor)
      siblings == IF level = 0 THEN 1
                  ELSE Len(NodeAt(root, SubSeq(cursor, 1, level - 1)).children)
  IN  (IF n.children # <<>>
       THEN <<cursor \o <<1>>>> \o findErrorsMoves(root, cursor \o <<1>>)
              \o <<cursor>>
       ELSE <<>>)
      \o (IF level > 0 /\ cursor[level] < siblings
          THEN <<[cursor EXCEPT ![level] = @ + 1]>>
                 \o findErrorsLoopMoves(root, [cursor EXCEPT ![level] = @ + 1])
          ELSE <<>>)

\* markersFor(node, block, imports) (lib/componentaddons): an informational
\* marker on a block whose kind the registry does not know.
markersFor(node, block, imports) ==
  IF block.name \in imports THEN <<>>
  ELSE <<[message |-> <<"unknown component ">> \o block.name,
          severity |-> "Info",
          startLineNumber |-> node.startPosition.row + 1,
          startColumn |-> node.startPosition.column + 1,
          endLineNumber |-> node.endPosition.row + 1,
          endColumn |-> node.endPosition.column + 1]>>

RECURSIVE provideInfoMarkers(_, _)
provideInfoMarkers(components, imports) ==
  IF components = <<>> THEN <<>>
  ELSE markersFor(Head(components).node, Head(components).block, imports)
         \o provideInfoMarkers(Tail(components), imports)

\* ComponentRecords with a query that captures every child of the root.
ComponentRecordsEveryChild(rootNode) ==
  [i \in 1..Len(rootNode.children) |->
     [node |-> rootNode.children[i],
      block |-> UnmarshalBlock(rootNode.children[i])]]

\* componentQuery.matches(tree.rootNode) for (config_file (block) @component),
\* each match paired with its Block.
ComponentRecords(rootNode) ==
  LET blocks == ChildrenOfType(rootNode, "block")
  IN  [i \in 1..Len(blocks) |->
         [node |-> blocks[i], block |-> UnmarshalBlock(blocks[i])]]

(***************************************************************************)
(* Bounds and inputs                                                       *)
(***************************************************************************)
\* Text changes (typed or patched) after the first render.
MaxChanges == 2
\* Children of the root, and children of a block, in the trees the tree
\* specification draws.
MaxKids == 2
MaxGrandKids == 2

\* The documents the editor may start with (the stored text).
InitDocs ==
  { <<>>,
    <<"a", "{", "b", ".", "r", "}", NL, "b", QUOTE, "r", QUOTE, "{", "}", NL>>,
    <<" ", "b", QUOTE, "r", QUOTE, "{", "b", ".", "r", "}">>,
    <<"b", ".">> \o Undefined \o <<NL, "b", "{", "}">> }

\* What one keystroke makes of the text: a line break typed at the start, or
\* the last character deleted.
Typed(text) ==
  {<<NL>> \o text}
    \cup (IF text = <<>> THEN {} ELSE {SubSeq(text, 1, Len(text) - 1)})

\* The registries setComponents may return, and the durations a cycle may
\* measure.
Registries == {{<<"a">>}}
Durations == {"0.1"}

\* The blocks the component list offers, and the blocks the form may submit
\* for a selected block.
NewBlocks == {[name |-> <<"b">>, label |-> Some(<<"z">>), body |-> <<>>]}
FormLabels == {Some(<<"r">>), Some(<<"z">>)}
\* A block submitted without a label holds undefined or null in its label.
FormBlocks(block) ==
  {[name |-> block.name, label |-> l, body |-> block.body] :
     l \in FormLabels \cup {block.label}
            \cup (IF Absent(block.label) THEN {NULL, JSNull} ELSE {})}

(***************************************************************************)
(* State                                                                   *)
(***************************************************************************)
VARIABLES
  model,             \* the text of the buffer, mirrored by onChange/setModel
  parserRef,         \* 0 (null), or the number of the load that assigned it
  editorRef,         \* editorRef, monacoRef and commandRef are set
  componentsRef,     \* componentsRef.current
  components,        \* the list last given to setComponents
  markers,           \* the markers last given to setModelMarkers
  parsingTime,
  isDrawerOpen,
  currentComponent,  \* null, or [component, node] with node possibly null
  lenses,            \* the code lenses the editor last obtained
  loads,             \* the parser initialisations in flight
  renders,           \* renders so far (the first, and one per new text)
  componentsText,    \* history: the text the component list was derived from
  markersText,       \* history: the text the markers were derived from
  lastEdit,          \* history: the executeEdits call of the step just taken
  inTree             \* the tree the parser returns (tree specification)

vars == <<model, parserRef, editorRef, componentsRef, components, markers,
          parsingTime, isDrawerOpen, currentComponent, lenses, loads, renders,
          componentsText, markersText, lastEdit, inTree>>

published == <<componentsRef, components, markers, parsingTime,
               componentsText, markersText>>
drawer == <<isDrawerOpen, currentComponent>>

NoText == <<"none">>
NoEdit == [op |-> "none"]

(***************************************************************************)
(* Document synchronizer                                                   *)
(***************************************************************************)
\* parseComponents without its first statement (the return while
\* parserRef.current is unset).
parseComponentsUnguarded(ref, rootNode, text, imports, duration) ==
  LET records == ComponentRecords(rootNode)
      errs == findErrors(rootNode, <<>>)
      infos == provideInfoMarkers(records, imports)
  IN  /\ componentsRef' = records
      /\ components' = records
      /\ componentsText' = text
      /\ IF editorRef
           THEN markers' = errs \o infos /\ markersText' = text
           ELSE UNCHANGED <<markers, markersText>>
      /\ parsingTime' = duration

\* parseComponents with the two marker lists spread in the other order.
parseComponentsInfosFirst(ref, rootNode, text, imports, duration) ==
  IF ref = 0 THEN UNCHANGED published
  ELSE LET records == ComponentRecords(rootNode)
           errs == findErrors(rootNode, <<>>)
           infos == provideInfoMarkers(records, imports)
       IN  /\ componentsRef' = records
           /\ components' = records
           /\ componentsText' = text
           /\ IF editorRef
                THEN markers' = infos \o errs /\ markersText' = text
                ELSE UNCHANGED <<markers, markersText>>
           /\ parsingTime' = duration

\* parseComponents keeping only the blocks whose name the registry knows.
parseComponentsKnownOnly(ref, rootNode, text, imports, duration) ==
  IF ref = 0 THEN UNCHANGED published
  ELSE LET records == SelectSeq(ComponentRecords(rootNode),
                                LAMBDA c : c.block.name \in imports)
           errs == findErrors(rootNode, <<>>)
           infos == provideInfoMarkers(records, imports)
       IN  /\ componentsRef' = records
           /\ components' = records
           /\ componentsText' = text
           /\ IF editorRef
                THEN markers' = errs \o infos /\ markersText' = text
                ELSE UNCHANGED <<markers, markersText>>
           /\ parsingTime' = duration

\* parseComponents, as the closure of a render whose text is `text`, with
\* rootNode the root of parser.parse(text); ref is parserRef.current.
parseComponents(ref, rootNode, text, imports, duration) ==
  IF ref = 0 THEN UNCHANGED published
  ELSE LET records == ComponentRecords(rootNode)
           errs == findErrors(rootNode, <<>>)
           infos == provideInfoMarkers(records, imports)
       IN  /\ componentsRef' = records
           /\ components' = records
           /\ componentsText' = text
           /\ IF editorRef
                THEN markers' = errs \o infos /\ markersText' = text
                ELSE UNCHANGED <<markers, markersText>>
           /\ parsingTime' = duration

\* A render with a new text: the initialisation effect starts another load
\* that holds this render's parseComponents, then the parse effect runs it.
Render(text, imports, duration) ==
  /\ model' = text
  /\ renders' = renders + 1
  /\ loads' = loads \cup {[id |-> renders + 1, model |-> text]}
  /\ parseComponents(parserRef, parse(text), text, imports, duration)
  /\ UNCHANGED parserRef

\* setModel(text): React renders again only when the text differs.
setModel(text, imports, duration) ==
  IF text = model
    THEN UNCHANGED <<model, renders, loads, parserRef, published>>
    ELSE Render(text, imports, duration)

\* The awaits of a load (Parser.init, then Parser.Language.load) resolve:
\* parserRef is assigned and the parseComponents of the render that started
\* the load is called.  Nothing shared changes between the two awaits.
LanguageLoad(load, imports, duration) ==
  /\ loads' = loads \ {load}
  /\ parserRef' = load.id
  /\ parseComponents(load.id, parse(load.model), load.model, imports,
                     duration)
  /\ lastEdit' = NoEdit
  /\ UNCHANGED <<model, editorRef, drawer, lenses, renders, inTree>>

handleEditorDidMount ==
  /\ ~editorRef
  /\ editorRef' = TRUE
  /\ lastEdit' = NoEdit
  /\ UNCHANGED <<model, parserRef, published, drawer, lenses, loads, renders,
                 inTree>>

\* The user types in the mounted editor.
onChange(text, imports, duration) ==
  /\ editorRef
  /\ renders <= MaxChanges
  /\ setModel(text, imports, duration)
  /\ lastEdit' = NoEdit
  /\ UNCHANGED <<editorRef, drawer, lenses, inTree>>

(***************************************************************************)
(* Lenses and the drawer                                                   *)
(***************************************************************************)
LensRange(node) ==
  [startLineNumber |-> node.startPosition.row + 1,
   startColumn |-> node.startPosition.column,
   endLineNumber |-> node.endPosition.row + 1,
   endColumn |-> node.endPosition.column]

\* The editor asks for the lenses anew.
provideCodeLenses ==
  /\ editorRef
  /\ lenses' =
       <<[range |-> [startLineNumber |-> getLineCount(model),
                     endLineNumber |-> getLineCount(model),
                     startColumn |-> 1, endColumn |-> 1],
          id |-> "addComponent",
          arguments |-> <<>>]>>
       \o (IF parserRef = 0 THEN <<>>
           ELSE [i \in 1..Len(componentsRef) |->
                   [range |-> LensRange(componentsRef[i].node),
                    id |-> "editComponent",
                    arguments |-> <<UnmarshalBlock(componentsRef[i].node),
                                    componentsRef[i].node>>]])
  /\ lenses' # lenses
  /\ lastEdit' = NoEdit
  /\ UNCHANGED <<model, parserRef, editorRef, published, drawer, loads,
                 renders, inTree>>

addComponentCommand(lens) ==
  /\ lens.id = "addComponent"
  /\ currentComponent' = NULL
  /\ isDrawerOpen' = TRUE
  /\ lastEdit' = NoEdit
  /\ UNCHANGED <<model, parserRef, editorRef, published, lenses, loads,
                 renders, inTree>>

editComponentCommand(lens) ==
  /\ lens.id = "editComponent"
  /\ currentComponent' = Some([component |-> lens.arguments[1],
                               node |-> Some(lens.arguments[2])])
  /\ isDrawerOpen' = TRUE
  /\ lastEdit' = NoEdit
  /\ UNCHANGED <<model, parserRef, editorRef, published, lenses, loads,
                 renders, inTree>>

\* The drawer's onClose and the form's discard.
closeDrawer ==
  /\ isDrawerOpen
  /\ isDrawerOpen' = FALSE
  /\ lastEdit' = NoEdit
  /\ UNCHANGED <<model, parserRef, editorRef, published, currentComponent,
                 lenses, loads, renders, inTree>>

\* The component list (shown while nothing is selected) picks a component.
insertComponent(component) ==
  /\ isDrawerOpen
  /\ currentComponent = NULL
  /\ currentComponent' = Some([component |-> component, node |-> NULL])
  /\ lastEdit' = NoEdit
  /\ UNCHANGED <<model, parserRef, editorRef, published, isDrawerOpen, lenses,
                 loads, renders, inTree>>

\* The back button, shown for a selection with no node.
backToList ==
  /\ isDrawerOpen
  /\ currentComponent # NULL
  /\ currentComponent[1].node = NULL
  /\ currentComponent' = NULL
  /\ lastEdit' = NoEdit
  /\ UNCHANGED <<model, parserRef, editorRef, published, isDrawerOpen, lenses,
                 loads, renders, inTree>>

(***************************************************************************)
(* Patch synthesizer                                                       *)
(***************************************************************************)
\* The range updateComponent replaces for a prior node.
ReplaceRange(node) ==
  [startLineNumber |-> node.startPosition.row + 1,
   startColumn |-> node.startPosition.column,
   endLineNumber |-> node.endPosition.row + 1,
   endColumn |-> node.endPosition.column + 1]

\* The edits of updateComponent for a prior node: the block replacement, then
\* one edit per match of name.oldLabel in the buffer.
ReplaceEdits(text, node, component) ==
  LET oldRef == component.name \o <<".">> \o Interpolate(LabelText(node))
      existingRefs == findMatches(text, oldRef)
  IN  <<[range |-> ReplaceRange(node), text |-> marshal(component)]>>
      \o [i \in 1..Len(existingRefs) |->
            [range |-> existingRefs[i],
             text |-> component.name \o <<".">>
                        \o Interpolate(component.label)]]

\* InsertEdits with the range at the first column of the last line.
InsertEditsAtLineStart(text, component) ==
  <<[range |-> [startLineNumber |-> getLineCount(text),
                endLineNumber |-> getLineCount(text),
                startColumn |-> 1,
                endColumn |-> 1],
     text |-> marshal(component) \o <<NL>>]>>

\* The edit of updateComponent for a selection with no node.
InsertEdits(text, component) ==
  LET lastLine == getLineCount(text)
      column == getLineMaxColumn(text, lastLine)
  IN  <<[range |-> [startLineNumber |-> getLineCount(text),
                    endLineNumber |-> getLineCount(text),
                    startColumn |-> column,
                    endColumn |-> column],
         text |-> marshal(component) \o <<NL>>]>>

UpdateEdits(text, selected, component) ==
  IF selected.node # NULL
    THEN ReplaceEdits(text, selected.node[1], component)
    ELSE InsertEdits(text, component)

\* The form submits `component` for the current selection.  When executeEdits
\* throws, the handler ends there and the drawer stays open.
updateComponent(component, imports, duration) ==
  /\ isDrawerOpen
  /\ currentComponent # NULL
  /\ renders <= MaxChanges
  /\ LET edits == UpdateEdits(model, currentComponent[1], component)
         result == executeEdits(model, edits)
     IN  /\ setModel(result.text, imports, duration)
         /\ isDrawerOpen' = result.threw
         /\ lastEdit' = [op |-> "updateComponent",
                         before |-> model,
                         selected |-> currentComponent[1],
                         component |-> component,
                         edits |-> edits,
                         threw |-> result.threw]
  /\ UNCHANGED <<editorRef, currentComponent, lenses, inTree>>

\* insertImport with the range on the last line instead of line 0.
insertImportOnLastLine(component, imports, duration) ==
  /\ isDrawerOpen
  /\ currentComponent = NULL
  /\ renders <= MaxChanges
  /\ LET edits == <<[range |-> [startLineNumber |-> getLineCount(model),
                                endLineNumber |-> getLineCount(model),
                                startColumn |-> 0, endColumn |-> 0],
                     text |-> marshal(component) \o <<NL, NL>>]>>
         result == executeEdits(model, edits)
     IN  /\ setModel(result.text, imports, duration)
         /\ lastEdit' = [op |-> "insertImport",
                         before |-> model,
                         component |-> component,
                         edits |-> edits,
                         threw |-> result.threw]
  /\ UNCHANGED <<editorRef, drawer, lenses, inTree>>

\* The component list adds an import at the start of the buffer.
insertImport(component, imports, duration) ==
  /\ isDrawerOpen
  /\ currentComponent = NULL
  /\ renders <= MaxChanges
  /\ LET edits == <<[range |-> [startLineNumber |-> 0, endLineNumber |-> 0,
                                startColumn |-> 0, endColumn |-> 0],
                     text |-> marshal(component) \o <<NL, NL>>]>>
         result == executeEdits(model, edits)
     IN  /\ setModel(result.text, imports, duration)
         /\ lastEdit' = [op |-> "insertImport",
                         before |-> model,
                         component |-> component,
                         edits |-> edits,
                         threw |-> result.threw]
  /\ UNCHANGED <<editorRef, drawer, lenses, inTree>>

(***************************************************************************)
(* Specifications                                                          *)
(***************************************************************************)
\* After the first render: the first load is in flight, the editor is not
\* mounted yet.
Init ==
  /\ model \in InitDocs
  /\ parserRef = 0
  /\ editorRef = FALSE
  /\ componentsRef = <<>>
  /\ components = <<>>
  /\ markers = <<>>
  /\ parsingTime = "0"
  /\ isDrawerOpen = FALSE
  /\ currentComponent = NULL
  /\ lenses = <<>>
  /\ loads = {[id |-> 1, model |-> model]}
  /\ renders = 1
  /\ componentsText = NoText
  /\ markersText = NoText
  /\ lastEdit = NoEdit
  /\ inTree = NULL

Next ==
  \/ \E load \in loads, imports \in Registries, duration \in Durations :
       LanguageLoad(load, imports, duration)
  \/ handleEditorDidMount
  \/ \E text \in Typed(model), imports \in Registries, duration \in Durations :
       onChange(text, imports, duration)
  \/ provideCodeLenses
  \/ \E i \in 1..Len(lenses) : addComponentCommand(lenses[i])
  \/ \E i \in 1..Len(lenses) : editComponentCommand(lenses[i])
  \/ closeDrawer
  \/ \E component \in NewBlocks : insertComponent(component)
  \/ backToList
  \/ \E component \in
          (IF currentComponent = NULL THEN {}
           ELSE FormBlocks(currentComponent[1].component)),
        imports \in Registries, duration \in Durations :
       updateComponent(component, imports, duration)
  \/ \E component \in NewBlocks, imports \in Registries,
        duration \in Durations :
       insertImport(component, imports, duration)

Spec == Init /\ [][Next]_vars

\* The synchronizer alone: loads, the mount and typing, with the drawer shut.
SyncNext ==
  \/ \E load \in loads, imports \in Registries, duration \in Durations :
       LanguageLoad(load, imports, duration)
  \/ handleEditorDidMount
  \/ \E text \in Typed(model), imports \in Registries, duration \in Durations :
       onChange(text, imports, duration)

SyncSpec == Init /\ [][SyncNext]_vars

\* The synchronizer under registries that differ: the component context may
\* know the kind "b" or not, cycle by cycle.
AllRegistries == Registries \cup {{<<"a">>, <<"b">>}}

RegistryNext ==
  \/ \E load \in loads, imports \in AllRegistries, duration \in Durations :
       LanguageLoad(load, imports, duration)
  \/ handleEditorDidMount
  \/ \E text \in Typed(model), imports \in AllRegistries,
        duration \in Durations :
       onChange(text, imports, duration)

RegistrySpec == Init /\ [][RegistryNext]_vars

\* A step in which a load in flight resolves: LanguageLoad seen through what
\* it does to loads and parserRef.
LoadResolves ==
  \E load \in loads : loads' = loads \ {load} /\ parserRef' = load.id

\* Every load that was started resolves (its promises settle); nobody has to
\* keep typing.
LiveSpec == SyncSpec /\ WF_loads(LoadResolves)

\* Editing once the editor is mounted and the first load has resolved and
\* published the starting text; the loads that later renders start stay in
\* flight.
EditInit ==
  /\ model \in InitDocs
  /\ parserRef = 1
  /\ editorRef = TRUE
  /\ componentsRef = ComponentRecords(parse(model))
  /\ components = componentsRef
  /\ \E imports \in Registries :
       markers = findErrors(parse(model), <<>>)
                   \o provideInfoMarkers(componentsRef, imports)
  /\ parsingTime \in Durations
  /\ isDrawerOpen = FALSE
  /\ currentComponent = NULL
  /\ lenses = <<>>
  /\ loads = {}
  /\ renders = 1
  /\ componentsText = model
  /\ markersText = model
  /\ lastEdit = NoEdit
  /\ inTree = NULL

EditNext ==
  \/ \E text \in Typed(model), imports \in Registries, duration \in Durations :
       onChange(text, imports, duration)
  \/ provideCodeLenses
  \/ \E i \in 1..Len(lenses) : addComponentCommand(lenses[i])
  \/ \E i \in 1..Len(lenses) : editComponentCommand(lenses[i])
  \/ closeDrawer
  \/ \E component \in NewBlocks : insertComponent(component)
  \/ backToList
  \/ \E component \in
          (IF currentComponent = NULL THEN {}
           ELSE FormBlocks(currentComponent[1].component)),
        imports \in Registries, duration \in Durations :
       updateComponent(component, imports, duration)
  \/ \E component \in NewBlocks, imports \in Registries,
        duration \in Durations :
       insertImport(component, imports, duration)

EditSpec == EditInit /\ [][EditNext]_vars

(***************************************************************************)
(* Tree specification: one parse cycle over any tree the parser may        *)
(* return, within the bounds.                                              *)
(***************************************************************************)
LeafKinds == {"tok", "ERROR", "MISSING"}

SeqsUpTo(S, lo, hi) == UNION {[1..n -> S] : n \in lo..hi}

\* A child of the root: a block with leaves, or an ERROR node over skipped
\* tokens.
ChildShapes ==
  {[type |-> "block", kids |-> k] : k \in SeqsUpTo(LeafKinds, 1, MaxGrandKids)}
    \cup {[type |-> "ERROR", kids |-> k] :
            k \in SeqsUpTo({"tok"}, 0, MaxGrandKids)}

Shapes == SeqsUpTo(ChildShapes, 0, MaxKids)

Width(kids, n) == Cardinality({i \in 1..n : kids[i] # "MISSING"})

\* A leaf takes one column, a missing leaf none.
LeafNode(kind, row, column) ==
  SyntaxNode(CASE kind = "tok" -> "identifier"
               [] kind = "ERROR" -> "ERROR"
               [] OTHER -> "}",
             kind = "MISSING",
             [row |-> row, column |-> column],
             [row |-> row,
              column |-> column + (IF kind = "MISSING" THEN 0 ELSE 1)],
             <<>>, <<>>)

\* Child k of the root starts on row k - 1 at column k - 1; an ERROR node
\* without tokens takes one column.
ChildNode(shape, k) ==
  LET n == Len(shape.kids)
      width == IF n = 0 THEN 1 ELSE Width(shape.kids, n)
  IN  SyntaxNode(shape.type, FALSE,
                 [row |-> k - 1, column |-> k - 1],
                 [row |-> k - 1, column |-> k - 1 + width],
                 <<>>,
                 [j \in 1..n |->
                    LeafNode(shape.kids[j], k - 1,
                             k - 1 + Width(shape.kids, j - 1))])

TreeOf(shape) ==
  LET n == Len(shape)
  IN  SyntaxNode("config_file", FALSE,
                 [row |-> 0, column |-> 0],
                 IF n = 0 THEN [row |-> 0, column |-> 0]
                 ELSE ChildNode(shape[n], n).endPosition,
                 <<>>,
                 [k \in 1..n |-> ChildNode(shape[k], k)])

TreeText == <<"tree">>

TreeInit ==
  /\ inTree \in {Some(TreeOf(shape)) : shape \in Shapes}
  /\ model = TreeText
  /\ parserRef = 1
  /\ editorRef = TRUE
  /\ componentsRef = <<>>
  /\ components = <<>>
  /\ markers = <<>>
  /\ parsingTime = "0"
  /\ isDrawerOpen = FALSE
  /\ currentComponent = NULL
  /\ lenses = <<>>
  /\ loads = {}
  /\ renders = 1
  /\ componentsText = NoText
  /\ markersText = NoText
  /\ lastEdit = NoEdit

\* The parse effect of the first render, the parser returning inTree.
ParseTree(imports, duration) ==
  /\ componentsText = NoText
  /\ parseComponents(parserRef, inTree[1], TreeText, imports, duration)
  /\ UNCHANGED <<model, parserRef, editorRef, drawer, lenses, loads, renders,
                 lastEdit, inTree>>

TreeNext ==
  \E imports \in Registries, duration \in Durations :
    ParseTree(imports, duration)

TreeSpec == TreeInit /\ [][TreeNext]_vars

(***************************************************************************)
(* Claims                                                                  *)
(***************************************************************************)
Range(seq) == {seq[i] : i \in 1..Len(seq)}
Count(x, seq) == Cardinality({i \in 1..Len(seq) : seq[i] = x})

\* The edit of the step just taken is an updateComponent on a prior node.
Replaced == lastEdit.op = "updateComponent" /\ lastEdit.selected.node # NULL
\* The edit of the step just taken is an updateComponent with no prior node.
Inserted == lastEdit.op = "updateComponent" /\ lastEdit.selected.node = NULL

\* C1: last-write-wins.  Whenever a component list is published, it is the
\* list of the text the buffer holds at that moment: no cycle publishes an
\* older text once a newer one is being processed.
C1_LastWriteWins ==
  [][componentsText' # componentsText => componentsText' = model']_vars

\* C2: the block replacement updateComponent submits is the range of that
\* block as it lies in the buffer at that moment (the range the code derives
\* from the block's node in a tree of the current text), whatever was typed
\* since the block was selected.
C2_PatchAgainstCurrentBuffer ==
  Replaced =>
    LET current == ComponentRecords(parse(lastEdit.before))
        node == lastEdit.selected.node[1]
    IN  \E i \in 1..Len(current) :
          /\ current[i].block = UnmarshalBlock(node)
          /\ lastEdit.edits[1].range = ReplaceRange(current[i].node)

\* Every node of a tree, parents before children, children left to right.
RECURSIVE PreOrder(_), PreOrderAll(_)
PreOrder(node) == <<node>> \o PreOrderAll(node.children)

PreOrderAll(nodes) ==
  IF nodes = <<>> THEN <<>>
  ELSE PreOrder(Head(nodes)) \o PreOrderAll(Tail(nodes))

SyntaxMarkers == SelectSeq(markers, LAMBDA m : m.severity = "Error")

Before(a, b) == a[1] < b[1] \/ (a[1] = b[1] /\ a[2] < b[2])

\* Marker m lies within the span of node c, both in the marker convention:
\* line = row + 1, start column = column, end column = column + 1.
WithinSpan(m, c) ==
  /\ ~Before(<<m.startLineNumber, m.startColumn>>,
             <<c.startPosition.row + 1, c.startPosition.column>>)
  /\ ~Before(<<c.endPosition.row + 1, c.endPosition.column + 1>>,
             <<m.endLineNumber, m.endColumn>>)

Malformed(rootNode) ==
  {k \in 1..Len(rootNode.children) : rootNode.children[k].hasError}

\* C4: error locality.  When exactly one child of the root is malformed,
\* every published syntax marker lies within that child's span, and every
\* other child is the node of a published component record.
C4_ErrorLocality ==
  (inTree # NULL /\ markersText # NoText
     /\ Cardinality(Malformed(inTree[1])) = 1) =>
    LET kids == inTree[1].children
        bad == CHOOSE k \in Malformed(inTree[1]) : TRUE
    IN  /\ \A i \in 1..Len(SyntaxMarkers) :
             WithinSpan(SyntaxMarkers[i], kids[bad])
        /\ \A k \in 1..Len(kids) :
             k # bad =>
               /\ \E j \in 1..Len(componentsRef) : componentsRef[j].node = kids[k]
               /\ \E j \in 1..Len(components) : components[j].node = kids[k]

\* C4 witness: a published tree with one malformed child, a marker on it, and
\* a well-formed block after it.
C4_Witness ==
  /\ inTree # NULL /\ markersText # NoText
  /\ Malformed(inTree[1]) = {1}
  /\ Len(inTree[1].children) = 2
  /\ SyntaxMarkers # <<>>
  /\ Len(componentsRef) >= 1

\* Two optional labels are the same label when both are absent or both hold
\* the same string; two blocks are the same block when their names, labels
\* and bodies are.
SameLabel(a, b) == (Absent(a) /\ Absent(b)) \/ a = b
SameBlock(a, b) ==
  a.name = b.name /\ SameLabel(a.label, b.label) /\ a.body = b.body

\* name.label as the template literals of updateComponent render it.
Reference(name, label) == name \o <<".">> \o Interpolate(label)

\* C5: rename propagation.  When updateComponent replaces a labelled block
\* and the label changes, the transaction is applied, it holds one edit per
\* occurrence of name.oldLabel in the buffer, each at the occurrence's own
\* range with the text name.newLabel, and no occurrence of name.oldLabel
\* is left in the buffer afterwards.
C5_RenamePropagation ==
  (Replaced /\ LabelText(lastEdit.selected.node[1]) # NULL
     /\ ~SameLabel(lastEdit.component.label,
                   LabelText(lastEdit.selected.node[1]))) =>
    LET name == lastEdit.component.name
        oldRef == Reference(name, LabelText(lastEdit.selected.node[1]))
        refs == findMatches(lastEdit.before, oldRef)
    IN  /\ ~lastEdit.threw
        /\ Len(lastEdit.edits) = 1 + Len(refs)
        /\ \A i \in 1..Len(refs) :
             lastEdit.edits[i + 1]
               = [range |-> refs[i],
                  text |-> Reference(name, lastEdit.component.label)]
        /\ findMatches(model, oldRef) = <<>>

\* The selected node is a node of the tree of the buffer as it is.
SelectionCurrent ==
  LET current == ComponentRecords(parse(lastEdit.before))
  IN  \E i \in 1..Len(current) : current[i].node = lastEdit.selected.node[1]

\* C6: round trip after a patch.  After updateComponent has applied an
\* insert or a replace of a block, the component list published by the
\* reparse holds a record whose block equals it; after an insert into an
\* empty buffer it holds that record alone.  Stated for the buffers that
\* parse without error and, for a replace, a selection taken from the tree of
\* the buffer as it is: the case in which the claim asks least.
C6_RoundTripAfterPatch ==
  (/\ lastEdit.op = "updateComponent"
   /\ ~lastEdit.threw
   /\ ~parse(lastEdit.before).hasError
   /\ Replaced => SelectionCurrent) =>
    /\ \E i \in 1..Len(componentsRef) :
         SameBlock(componentsRef[i].block, lastEdit.component)
    /\ (Inserted /\ lastEdit.before = <<>>) => Len(componentsRef) = 1

\* C7: insert.  After updateComponent for a selection with no node, the
\* buffer is the previous buffer, then marshal(block), then one line break;
\* the transaction is one edit with an empty range at the last column of the
\* last line.
C7_InsertAppends ==
  Inserted =>
    LET before == lastEdit.before
        lastLine == getLineCount(before)
        column == getLineMaxColumn(before, lastLine)
    IN  /\ ~lastEdit.threw
        /\ model = before \o marshal(lastEdit.component) \o <<NL>>
        /\ Len(lastEdit.edits) = 1
        /\ lastEdit.edits[1].range
             = [startLineNumber |-> lastLine, endLineNumber |-> lastLine,
                startColumn |-> column, endColumn |-> column]
        /\ RangeOffsets(before, lastEdit.edits[1].range)
             = [s |-> Len(before), e |-> Len(before)]

\* C7 witness: a block was inserted into a buffer whose last line is not
\* empty.
C7_Witness ==
  /\ Inserted
  /\ ~lastEdit.threw
  /\ getLineMaxColumn(lastEdit.before, getLineCount(lastEdit.before)) > 1
  /\ model = lastEdit.before \o marshal(lastEdit.component) \o <<NL>>

\* Offset of a tree position in the text.
PointOffset(text, point) == LineStart(text, point.row + 1) + point.column

\* C8: replace.  When the selected node is a node of the tree of the buffer
\* as it is, the block replacement of updateComponent covers the characters
\* of the node, from its first to its last, and no other.
C8_ReplaceExactSpan ==
  LET current == ComponentRecords(parse(lastEdit.before))
  IN  (Replaced /\ \E i \in 1..Len(current) :
                     current[i].node = lastEdit.selected.node[1]) =>
        RangeOffsets(lastEdit.before, lastEdit.edits[1].range)
          = [s |-> PointOffset(lastEdit.before,
                               lastEdit.selected.node[1].startPosition),
             e |-> PointOffset(lastEdit.before,
                               lastEdit.selected.node[1].endPosition)]

\* C9: grammar unavailable.  A text change while the parser is not loaded
\* leaves the published component list, the markers and the parse duration
\* as they were.
C9_GrammarUnavailableNoOp ==
  [][(parserRef = 0 /\ model' # model) =>
       UNCHANGED <<componentsRef, components, markers, parsingTime,
                   componentsText, markersText>>]_vars

\* C9 witness: the text has changed to one with blocks while the parser was
\* not loaded, and nothing has been published.
C9_Witness ==
  /\ parserRef = 0
  /\ renders > 1
  /\ ComponentRecords(parse(model)) # <<>>
  /\ componentsText = NoText
  /\ parsingTime = "0"

\* C10: deferred reparse.  When text changes arrive before the parser is
\* loaded, then (every started load resolving) there comes a moment where
\* no load is in flight and the published component list and markers are
\* those of the text the buffer holds.
C10_DeferredReparse ==
  [] ((parserRef = 0 /\ renders > 1) =>
        <>(loads = {} /\ componentsText = model /\ markersText = model))

\* C11: the parser is initialised once.  No step starts another load after
\* the one the first render started, and parserRef, once set, is never
\* assigned again.
C11_InitializedOnce ==
  [][/\ loads' \subseteq loads
     /\ (parserRef # 0 => parserRef' = parserRef)]_vars

\* The markers one cycle computes for a text under a registry: the syntax
\* markers, then the informational ones.
CycleMarkers(text, imports) ==
  findErrors(parse(text), <<>>)
    \o provideInfoMarkers(ComponentRecords(parse(text)), imports)

\* C12: once markers have been published, the marker set is the syntax
\* markers of the last publishing cycle followed by its informational
\* markers, and nothing else.
C12_MarkerOrder ==
  markersText # NoText =>
    \E imports \in Registries : markers = CycleMarkers(markersText, imports)

\* C12 witness: after a text change, the published markers hold a syntax
\* marker and an informational marker.
C12_Witness ==
  /\ renders > 1
  /\ markersText = model
  /\ \E i, j \in 1..Len(markers) :
       markers[i].severity = "Error" /\ markers[j].severity = "Info"

\* C13: publishes are all-or-nothing.  Once a cycle has published a component
\* list, the published markers are those of the same text.
C13_AllOrNothingPublish ==
  componentsText # NoText => markersText = componentsText

\* C14: after a cycle the component list, in componentsRef and as given to
\* setComponents, is one record per block that is a direct child of the root
\* of the tree of the cycle's text, in document order, each the node with its
\* unmarshalled block, and nothing else.
C14_ComponentList ==
  componentsText # NoText =>
    LET blocks == SelectSeq(parse(componentsText).children,
                            LAMBDA c : c.type = "block")
    IN  /\ components = componentsRef
        /\ Len(componentsRef) = Len(blocks)
        /\ \A i \in 1..Len(blocks) :
             componentsRef[i]
               = [node |-> blocks[i], block |-> UnmarshalBlock(blocks[i])]

\* C14 witness: a cycle after a text change has published the list of a tree
\* whose root has a block child and a child that is no block.
C14_Witness ==
  /\ renders > 1
  /\ componentsText = model
  /\ componentsRef # <<>>
  /\ \E c \in Range(parse(model).children) : c.type # "block"

\* C15: unknown-kind tolerance.  A cycle on the text of the cycle before it
\* publishes the same component list whatever registry it runs under, and
\* the same syntax markers at the head of the marker set: only the
\* informational markers after them may differ.
C15_UnknownKindTolerance ==
  [][/\ (componentsText # NoText /\ componentsText' = componentsText) =>
          (componentsRef' = componentsRef /\ components' = components)
     /\ (markersText # NoText /\ markersText' = markersText) =>
          /\ SyntaxMarkers' = SyntaxMarkers
          /\ SubSeq(markers', 1, Len(SyntaxMarkers)) = SyntaxMarkers
          /\ SubSeq(markers, 1, Len(SyntaxMarkers)) = SyntaxMarkers]_vars

\* C15 witness: a text with a block of kind "b" was parsed under a registry
\* that lacks "b": its record is published, with an informational marker and
\* a syntax marker before it, and no load is left that could parse it again.
C15_Witness ==
  /\ componentsText = model /\ markersText = model
  /\ renders > 1 /\ loads = {}
  /\ \E i \in 1..Len(componentsRef) : componentsRef[i].block.name = <<"b">>
  /\ \E i, j \in 1..Len(markers) :
       /\ i < j
       /\ markers[i].severity = "Error"
       /\ markers[j].severity = "Info"

\* The paths of the nodes of a tree.
RECURSIVE Paths(_, _)
Paths(root, path) ==
  {path} \cup UNION {Paths(root, path \o <<k>>) :
                       k \in 1..Len(NodeAt(root, path).children)}

\* C16: the syntax pass of a cycle moves the cursor down only from nodes
\* flagged as holding an error, and a call of findErrors on any node of the
\* tree leaves the cursor on the level of that node.
C16_DescendsOnlyIntoErrors ==
  (inTree # NULL /\ markersText # NoText) =>
    LET root == inTree[1]
        positions == <<<<>>>> \o findErrorsMoves(root, <<>>)
    IN  /\ \A i \in 2..Len(positions) :
             Len(positions[i]) > Len(positions[i - 1]) =>
               NodeAt(root, positions[i - 1]).hasError
        /\ \A path \in Paths(root, <<>>) :
             LET after == <<path>> \o findErrorsMoves(root, path)
             IN  Len(after[Len(after)]) = Len(path)

\* C17: minimal patch.  When updateComponent replaces a block and the
\* submitted label is the label of the prior node, the transaction holds the
\* block replacement and no other edit.
C17_MinimalPatch ==
  (Replaced
     /\ SameLabel(lastEdit.component.label,
                  LabelText(lastEdit.selected.node[1]))) =>
    Len(lastEdit.edits) = 1

\* C18: the edits updateComponent submits in one transaction cover pairwise
\* disjoint parts of the buffer.
C18_NonOverlappingEdits ==
  lastEdit.op = "updateComponent" =>
    \A a, b \in EditOps(lastEdit.before, lastEdit.edits) :
      a.sortIndex < b.sortIndex => (a.e <= b.s \/ b.e <= a.s)

\* C19: when the prior node has no label, updateComponent submits the block
\* replacement alone, and the buffer before and after the replaced range is
\* left as it was.
C19_NoLabelNoRename ==
  (Replaced /\ LabelText(lastEdit.selected.node[1]) = NULL) =>
    LET before == lastEdit.before
        span == RangeOffsets(before, lastEdit.edits[1].range)
        tail == Len(before) - span.e
    IN  /\ Len(lastEdit.edits) = 1
        /\ Len(model) >= span.s + tail
        /\ SubSeq(model, 1, span.s) = SubSeq(before, 1, span.s)
        /\ SubSeq(model, Len(model) - tail + 1, Len(model))
             = SubSeq(before, span.e + 1, Len(before))

\* C20: insertImport submits one edit that puts marshal(component) and a
\* blank line before the first character of the buffer: the buffer afterwards
\* is that text followed by the whole previous buffer, and the drawer and the
\* selection are as they were.
C20_InsertImport ==
  [][lastEdit'.op = "insertImport" =>
       /\ ~lastEdit'.threw
       /\ Len(lastEdit'.edits) = 1
       /\ model' = marshal(lastEdit'.component) \o <<NL, NL>> \o model
       /\ UNCHANGED <<isDrawerOpen, currentComponent>>]_vars

\* C20 witness: an import was inserted into a buffer of several lines, the
\* drawer still open on the component list.
C20_Witness ==
  /\ lastEdit.op = "insertImport"
  /\ getLineCount(lastEdit.before) > 1
  /\ model = marshal(lastEdit.component) \o <<NL, NL>> \o lastEdit.before
  /\ isDrawerOpen
  /\ currentComponent = NULL

====
